---- MODULE Spec2Model ----
(***************************************************************************)
(* Position and trade accounting of pyfback: strategy/position.py          *)
(* (Position, PositionManager), engine/trade.py (Trade, TradeManager) and   *)
(* strategy/signals.py (Signal).                                           *)
(*                                                                         *)
(* Python floats are modelled as exact rationals <<n, d>> in lowest terms  *)
(* with d > 0, so that the weighted-average division is computed, not      *)
(* assumed; rounding of IEEE doubles is outside the model.  A timestamp    *)
(* (datetime.now()) is the logical clock of the call that wrote it.        *)
(***************************************************************************)
EXTENDS Integers, Sequences, FiniteSets, TLC

VARIABLES
    positions,  \* PositionManager.positions: symbol -> Position
    last,       \* the latest Position / PositionManager call: arguments, registry before it, outcome
    hist,       \* the calls made so far on the position (kept by the call-sequence specifications)
    steps,      \* number of calls made so far (the clock read by datetime.now())
    trade,      \* <<t>> for the Trade object t, or None before its construction
    tlast,      \* the latest Trade call: arguments, the Trade before it, outcome
    objects,    \* the Trade objects handed to the TradeManager; a reference is an index
    trades,     \* TradeManager.trades: trade_id -> reference
    trade_history,  \* TradeManager.trade_history: list of references
    llast,      \* the latest TradeManager call, the length of the log before it and
                \* the number of add_trade calls since the latest clear_trades
    signal,     \* <<s>> for the Signal object s, or None before its construction
    slast,      \* the latest Signal construction: arguments and outcome
    plast,      \* the latest Trade.calculate_pnl call: argument, the Trade, the value returned
    cache,      \* <<c>> for the DataCache object c, or None before its construction
    disk,       \* the pickle files of the cache directory: key -> data
    used,       \* key -> clock of the latest set or successful get of the key
    clast       \* the latest DataCache call: arguments, the cache before it, outcome

ledgerVars == <<objects, trades, trade_history, llast>>
signalVars == <<signal, slast>>
cacheVars == <<cache, disk, used, clast>>
otherVars == <<ledgerVars, signalVars, plast, cacheVars>>
vars == <<positions, last, hist, steps, trade, tlast, otherVars>>

----------------------------------------------------------------------------
(* Bounds of the model *)

MaxOps == 3        \* calls per behaviour of Spec
MaxQty == 2        \* quantities passed to calls range over 0 .. MaxQty
MaxPrice == 2      \* prices passed to calls range over 0 .. MaxPrice
MaxSeq == 3        \* calls per behaviour of SeqSpec
MaxExampleOps == 4 \* calls per behaviour of ExampleSpec
MaxTradeOps == 3   \* calls per behaviour of TradeSpec
MaxLedger == 3     \* trades in the log of the TradeManager
MaxMarkOps == 3    \* calls per behaviour of MarkSpec
MaxCacheOps == 5   \* calls per behaviour of CacheSpec, the construction included
MaxMemoryItems == 2 \* max_memory_items ranges over 0 .. MaxMemoryItems

----------------------------------------------------------------------------
(* Exact rational arithmetic standing for Python float arithmetic *)

RECURSIVE GCD(_, _)
GCD(a, b) == IF b = 0 THEN a ELSE GCD(b, a % b)

Abs(n) == IF n < 0 THEN -n ELSE n

Norm(n, d) ==
    LET s == IF d < 0 THEN -1 ELSE 1
        g == GCD(Abs(n), Abs(d))
    IN  <<(s * n) \div g, (s * d) \div g>>

I(n) == <<n, 1>>
Zero == I(0)

RAdd(x, y) == Norm(x[1] * y[2] + y[1] * x[2], x[2] * y[2])
RSub(x, y) == Norm(x[1] * y[2] - y[1] * x[2], x[2] * y[2])
RMul(x, y) == Norm(x[1] * y[1], x[2] * y[2])
RNeg(x) == <<-x[1], x[2]>>
RDiv(x, y) == Norm(x[1] * y[2], x[2] * y[1])
RLt(x, y) == x[1] * y[2] < y[1] * x[2]
RLe(x, y) == x[1] * y[2] <= y[1] * x[2]
RAbs(x) == <<Abs(x[1]), x[2]>>

----------------------------------------------------------------------------
(* Position *)

PositionSide == {"LONG", "SHORT", "FLAT"}

None == <<>>
Ok(pos, ret) == [pos |-> pos, ret |-> ret, err |-> "none"]
Raise(pos, err) == [pos |-> pos, ret |-> None, err |-> err]

\* Position.__post_init__: the dataclass constructor with its validation.
post_init(side, quantity, avg_price, current_price, now) ==
    LET p == [side |-> side, quantity |-> quantity, avg_price |-> avg_price,
              current_price |-> current_price, timestamp |-> now,
              unrealized_pnl |-> Zero, realized_pnl |-> Zero]
    IN  IF RLt(quantity, Zero) THEN Raise(p, "ValueError: quantity < 0")
        ELSE IF RLe(avg_price, Zero) THEN Raise(p, "ValueError: avg_price <= 0")
        ELSE IF RLe(current_price, Zero) THEN Raise(p, "ValueError: current_price <= 0")
        ELSE Ok(p, None)

create_long_position(quantity, price, now) == post_init("LONG", quantity, price, price, now)
create_short_position(quantity, price, now) == post_init("SHORT", quantity, price, price, now)
create_flat_position(now) == post_init("FLAT", Zero, Zero, Zero, now)

is_long(p) == p.side = "LONG" /\ RLt(Zero, p.quantity)
is_short(p) == p.side = "SHORT" /\ RLt(Zero, p.quantity)
is_flat(p) == p.side = "FLAT" \/ p.quantity = Zero
cost_value(p) == RMul(p.quantity, p.avg_price)

\* calculate_unrealized_pnl() as update_price calls it: no argument, so the
\* price is self.current_price.
calculate_unrealized_pnl(p) ==
    LET price_diff == RSub(p.current_price, p.avg_price)
    IN  IF is_flat(p) THEN Zero
        ELSE IF is_long(p) THEN RMul(p.quantity, price_diff)
        ELSE RMul(p.quantity, RNeg(price_diff))

\* update_price that computes the unrealized PnL before storing the new price.
update_price_stale(p, new_price, now) ==
    Ok([p EXCEPT !.current_price = new_price,
                 !.unrealized_pnl = calculate_unrealized_pnl(p),
                 !.timestamp = now], None)

update_price(p, new_price, now) ==
    LET p1 == [p EXCEPT !.current_price = new_price]
    IN  Ok([p1 EXCEPT !.unrealized_pnl = calculate_unrealized_pnl(p1),
                      !.timestamp = now], None)

\* add_position that averages over the quantity held before the addition.
add_position_old_quantity(p, quantity, price, now) ==
    IF RLe(quantity, Zero) THEN Raise(p, "ValueError: add quantity <= 0")
    ELSE IF is_flat(p)
    THEN Ok([p EXCEPT !.quantity = quantity, !.avg_price = price,
                      !.timestamp = now], None)
    ELSE Ok([p EXCEPT !.quantity = RAdd(p.quantity, quantity),
                      !.avg_price = RDiv(RAdd(cost_value(p), RMul(quantity, price)),
                                         p.quantity),
                      !.timestamp = now], None)

add_position(p, quantity, price, now) ==
    IF RLe(quantity, Zero) THEN Raise(p, "ValueError: add quantity <= 0")
    ELSE IF is_flat(p)
    THEN Ok([p EXCEPT !.quantity = quantity, !.avg_price = price,
                      !.timestamp = now], None)
    ELSE LET total_cost == RAdd(cost_value(p), RMul(quantity, price))
             p1 == [p EXCEPT !.quantity = RAdd(p.quantity, quantity)]
         IN  IF p1.quantity = Zero
             THEN Raise(p1, "ZeroDivisionError")
             ELSE Ok([p1 EXCEPT !.avg_price = RDiv(total_cost, p1.quantity),
                                !.timestamp = now], None)

\* reduce_position that computes every realized PnL with the long formula.
reduce_position_long_only(p, quantity, price, now) ==
    IF RLe(quantity, Zero) THEN Raise(p, "ValueError: reduce quantity <= 0")
    ELSE IF RLt(p.quantity, quantity)
    THEN Raise(p, "ValueError: reduce quantity > held quantity")
    ELSE LET realized_pnl == RMul(quantity, RSub(price, p.avg_price))
             p1 == [p EXCEPT !.realized_pnl = RAdd(p.realized_pnl, realized_pnl),
                             !.quantity = RSub(p.quantity, quantity)]
             p2 == IF p1.quantity = Zero THEN [p1 EXCEPT !.side = "FLAT"] ELSE p1
         IN  Ok([p2 EXCEPT !.timestamp = now], <<realized_pnl>>)

\* reduce_position without the check against the held quantity.
reduce_position_unchecked(p, quantity, price, now) ==
    IF RLe(quantity, Zero) THEN Raise(p, "ValueError: reduce quantity <= 0")
    ELSE LET price_diff == RSub(price, p.avg_price)
             realized_pnl == IF is_long(p) THEN RMul(quantity, price_diff)
                             ELSE RMul(quantity, RNeg(price_diff))
             p1 == [p EXCEPT !.realized_pnl = RAdd(p.realized_pnl, realized_pnl),
                             !.quantity = RSub(p.quantity, quantity)]
             p2 == IF p1.quantity = Zero THEN [p1 EXCEPT !.side = "FLAT"] ELSE p1
         IN  Ok([p2 EXCEPT !.timestamp = now], <<realized_pnl>>)

\* reduce_position that also resets avg_price when the quantity reaches 0.
reduce_position_reset_avg(p, quantity, price, now) ==
    IF RLe(quantity, Zero) THEN Raise(p, "ValueError: reduce quantity <= 0")
    ELSE IF RLt(p.quantity, quantity)
    THEN Raise(p, "ValueError: reduce quantity > held quantity")
    ELSE LET price_diff == RSub(price, p.avg_price)
             realized_pnl == IF is_long(p) THEN RMul(quantity, price_diff)
                             ELSE RMul(quantity, RNeg(price_diff))
             p1 == [p EXCEPT !.realized_pnl = RAdd(p.realized_pnl, realized_pnl),
                             !.quantity = RSub(p.quantity, quantity)]
             p2 == IF p1.quantity = Zero
                   THEN [p1 EXCEPT !.side = "FLAT", !.avg_price = Zero] ELSE p1
         IN  Ok([p2 EXCEPT !.timestamp = now], <<realized_pnl>>)

reduce_position(p, quantity, price, now) ==
    IF RLe(quantity, Zero) THEN Raise(p, "ValueError: reduce quantity <= 0")
    ELSE IF RLt(p.quantity, quantity)
    THEN Raise(p, "ValueError: reduce quantity > held quantity")
    ELSE LET price_diff == RSub(price, p.avg_price)
             realized_pnl == IF is_long(p) THEN RMul(quantity, price_diff)
                             ELSE RMul(quantity, RNeg(price_diff))
             p1 == [p EXCEPT !.realized_pnl = RAdd(p.realized_pnl, realized_pnl),
                             !.quantity = RSub(p.quantity, quantity)]
             p2 == IF p1.quantity = Zero THEN [p1 EXCEPT !.side = "FLAT"] ELSE p1
         IN  Ok([p2 EXCEPT !.timestamp = now], <<realized_pnl>>)

\* close_position that closes at the cost basis instead of the given price.
close_position_at_cost(p, price, now) ==
    IF is_flat(p) THEN Ok(p, <<Zero>>)
    ELSE reduce_position(p, p.quantity, p.avg_price, now)

\* close_position without the early return for a flat position.
close_position_always_reduce(p, price, now) ==
    reduce_position(p, p.quantity, price, now)

close_position(p, price, now) ==
    IF is_flat(p) THEN Ok(p, <<Zero>>)
    ELSE reduce_position(p, p.quantity, price, now)

reverse_position(p, new_quantity, price, now) ==
    LET c == close_position(p, price, now)
    IN  IF c.err # "none" THEN c
        ELSE IF RLt(Zero, new_quantity)
        THEN Ok([c.pos EXCEPT !.quantity = new_quantity, !.avg_price = price,
                              !.side = IF c.pos.side = "LONG" THEN "SHORT" ELSE "LONG",
                              !.timestamp = now], c.ret)
        ELSE c

----------------------------------------------------------------------------
(* PositionManager *)

\* get_position / the head of update_position: a symbol not yet in the map is
\* given create_flat_position(symbol); the map is written only if that returns.
ensure_position(ps, symbol, now) ==
    IF symbol \in DOMAIN ps THEN Ok(ps, None)
    ELSE LET c == create_flat_position(now)
         IN  IF c.err # "none" THEN Raise(ps, c.err)
             ELSE Ok([s \in DOMAIN ps \cup {symbol} |->
                        IF s = symbol THEN c.pos ELSE ps[s]], None)

get_position(ps, symbol, now) == ensure_position(ps, symbol, now)

\* update_same_or_reverse that adds the requested quantity, not the difference.
update_same_or_reverse_full_quantity(position, quantity, side, price, now) ==
    LET opposite == IF side = "LONG" THEN is_short(position) ELSE is_long(position)
        p1 == [position EXCEPT !.side = side]
    IN  IF opposite THEN reverse_position(position, quantity, price, now)
        ELSE IF is_flat(p1)
        THEN Ok([p1 EXCEPT !.quantity = quantity, !.avg_price = price], None)
        ELSE add_position(p1, quantity, price, now)

\* update_same_or_reverse that never assigns the requested side.
update_same_or_reverse_keep_side(position, quantity, side, price, now) ==
    LET opposite == IF side = "LONG" THEN is_short(position) ELSE is_long(position)
    IN  IF opposite THEN reverse_position(position, quantity, price, now)
        ELSE IF is_flat(position)
        THEN Ok([position EXCEPT !.quantity = quantity, !.avg_price = price], None)
        ELSE add_position(position, RSub(quantity, position.quantity), price, now)

\* The LONG and SHORT branches of update_position, which differ only in the side.
update_same_or_reverse(position, quantity, side, price, now) ==
    LET opposite == IF side = "LONG" THEN is_short(position) ELSE is_long(position)
        p1 == [position EXCEPT !.side = side]
    IN  IF opposite THEN reverse_position(position, quantity, price, now)
        ELSE IF is_flat(p1)
        THEN Ok([p1 EXCEPT !.quantity = quantity, !.avg_price = price], None)
        ELSE add_position(p1, RSub(quantity, p1.quantity), price, now)

update_position(ps, symbol, quantity, side, price, now) ==
    LET e == ensure_position(ps, symbol, now)
    IN  IF e.err # "none" THEN e
        ELSE LET position == e.pos[symbol]
                 d == IF side = "FLAT" THEN close_position(position, price, now)
                      ELSE update_same_or_reverse(position, quantity, side, price, now)
             IN  IF d.err # "none"
                 THEN Raise([e.pos EXCEPT ![symbol] = d.pos], d.err)
                 ELSE Ok([e.pos EXCEPT ![symbol] = update_price(d.pos, price, now).pos], None)

\* update_prices that registers a flat Position for a symbol it does not know.
update_prices_registering(ps, prices, now) ==
    Ok([s \in DOMAIN ps \cup DOMAIN prices |->
            IF s \notin DOMAIN ps
            THEN post_init("FLAT", Zero, prices[s], prices[s], now).pos
            ELSE IF s \in DOMAIN prices THEN update_price(ps[s], prices[s], now).pos
            ELSE ps[s]], None)

\* prices is a map symbol -> price; the loop visits each of its keys once and
\* the visits touch different Positions, so their order does not matter.
update_prices(ps, prices, now) ==
    Ok([s \in DOMAIN ps |->
            IF s \in DOMAIN prices THEN update_price(ps[s], prices[s], now).pos
            ELSE ps[s]], None)

----------------------------------------------------------------------------
(* Trade *)

TradeType == {"BUY", "SELL", "CLOSE_LONG", "CLOSE_SHORT"}
TradeStatus == {"PENDING", "FILLED", "CANCELLED", "REJECTED"}

NoMetadata == [k \in {} |-> ""]
NoTrades == [id \in {} |-> 0]

TradeOk(t) == [trade |-> t, err |-> "none"]
TradeRaise(t, err) == [trade |-> t, err |-> err]

\* Trade.__post_init__ without the check of the commission.
trade_post_init_any_commission(trade_type, quantity, price, commission, slippage) ==
    LET t == [trade_type |-> trade_type, quantity |-> quantity, price |-> price,
              status |-> "PENDING", commission |-> commission, slippage |-> slippage,
              realized_pnl |-> Zero, fill_time |-> None, metadata |-> NoMetadata]
    IN  IF RLe(quantity, Zero) THEN TradeRaise(t, "ValueError: quantity <= 0")
        ELSE IF RLe(price, Zero) THEN TradeRaise(t, "ValueError: price <= 0")
        ELSE TradeOk(t)

\* Trade.__post_init__: the dataclass constructor (status, realized_pnl,
\* fill_time and metadata at their defaults) with its validation.
trade_post_init(trade_type, quantity, price, commission, slippage) ==
    LET t == [trade_type |-> trade_type, quantity |-> quantity, price |-> price,
              status |-> "PENDING", commission |-> commission, slippage |-> slippage,
              realized_pnl |-> Zero, fill_time |-> None, metadata |-> NoMetadata]
    IN  IF RLe(quantity, Zero) THEN TradeRaise(t, "ValueError: quantity <= 0")
        ELSE IF RLe(price, Zero) THEN TradeRaise(t, "ValueError: price <= 0")
        ELSE IF RLt(commission, Zero) THEN TradeRaise(t, "ValueError: commission < 0")
        ELSE TradeOk(t)

trade_value(t) == RMul(t.quantity, t.price)

\* total_cost that charges the signed slippage.
total_cost_signed_slippage(t) ==
    LET slippage_cost == RMul(t.quantity, t.slippage)
    IN  RAdd(RAdd(trade_value(t), t.commission), slippage_cost)

total_cost(t) ==
    LET slippage_cost == RMul(t.quantity, RAbs(t.slippage))
    IN  RAdd(RAdd(trade_value(t), t.commission), slippage_cost)

\* fill that never overrides the recorded price.
fill_keep_price(t, fill_price, fill_time, now) ==
    TradeOk([t EXCEPT !.fill_time = IF fill_time # None THEN fill_time ELSE <<now>>,
                      !.status = "FILLED"])

\* fill_price and fill_time are None or <<value>>.
fill(t, fill_price, fill_time, now) ==
    LET t1 == IF fill_price # None THEN [t EXCEPT !.price = fill_price[1]] ELSE t
    IN  TradeOk([t1 EXCEPT !.fill_time = IF fill_time # None THEN fill_time ELSE <<now>>,
                           !.status = "FILLED"])

cancel(t) == TradeOk([t EXCEPT !.status = "CANCELLED"])

\* reject that stores the reason whatever its value.
reject_always_store(t, reason) ==
    LET t1 == [t EXCEPT !.status = "REJECTED"]
    IN  TradeOk([t1 EXCEPT !.metadata =
                    [k \in DOMAIN t1.metadata \cup {"reject_reason"} |->
                        IF k = "reject_reason" THEN reason ELSE t1.metadata[k]]])

reject(t, reason) ==
    LET t1 == [t EXCEPT !.status = "REJECTED"]
    IN  TradeOk(IF reason # ""
                THEN [t1 EXCEPT !.metadata =
                        [k \in DOMAIN t1.metadata \cup {"reject_reason"} |->
                            IF k = "reject_reason" THEN reason ELSE t1.metadata[k]]]
                ELSE t1)

is_filled(t) == t.status = "FILLED"
is_long_side(t) == t.trade_type \in {"BUY", "CLOSE_SHORT"}

\* calculate_pnl that uses the long formula for every trade.
calculate_pnl_long_only(t, exit_price) ==
    RMul(t.quantity, RSub(exit_price, t.price))

calculate_pnl(t, exit_price) ==
    IF is_long_side(t) THEN RMul(t.quantity, RSub(exit_price, t.price))
    ELSE RMul(t.quantity, RSub(t.price, exit_price))
is_pending(t) == t.status = "PENDING"

----------------------------------------------------------------------------
(* TradeManager *)

\* A TradeManager m is [trades, trade_history]; both hold references into
\* objs, the Trade objects, so that a status change of an object shows in both.

\* Trade(trade_id=..., trade_type=..., commission=..., realized_pnl=...): the
\* Trade of trade_post_init with its trade_id and the realized_pnl keyword.
ledger_trade(trade_id, trade_type, quantity, price, commission, realized_pnl) ==
    LET c == trade_post_init(trade_type, quantity, price, commission, Zero)
        t == [c.trade EXCEPT !.realized_pnl = realized_pnl]
    IN  [c EXCEPT !.trade = [k \in DOMAIN t \cup {"trade_id"} |->
                                IF k = "trade_id" THEN trade_id ELSE t[k]]]

\* add_trade that skips the log for a trade_id the map already holds.
add_trade_unique(m, objs, r) ==
    [trades |-> [id \in DOMAIN m.trades \cup {objs[r].trade_id} |->
                    IF id = objs[r].trade_id THEN r ELSE m.trades[id]],
     trade_history |-> IF objs[r].trade_id \in DOMAIN m.trades THEN m.trade_history
                       ELSE Append(m.trade_history, r)]

add_trade(m, objs, r) ==
    [trades |-> [id \in DOMAIN m.trades \cup {objs[r].trade_id} |->
                    IF id = objs[r].trade_id THEN r ELSE m.trades[id]],
     trade_history |-> Append(m.trade_history, r)]

get_trade(m, trade_id) ==
    IF trade_id \in DOMAIN m.trades THEN <<m.trades[trade_id]>> ELSE None

\* get_filled_trades that keeps every trade that is not pending.
get_filled_trades_not_pending(m, objs) ==
    SelectSeq(m.trade_history, LAMBDA r : ~is_pending(objs[r]))

get_filled_trades(m, objs) ==
    SelectSeq(m.trade_history, LAMBDA r : is_filled(objs[r]))

get_pending_trades(m, objs) ==
    SelectSeq(m.trade_history, LAMBDA r : is_pending(objs[r]))

\* get_trades_by_type that files a closing trade under its side as well.
get_trades_by_type_by_side(m, objs, trade_type) ==
    SelectSeq(m.trade_history,
              LAMBDA r : \/ objs[r].trade_type = trade_type
                         \/ objs[r].trade_type = "CLOSE_SHORT" /\ trade_type = "BUY"
                         \/ objs[r].trade_type = "CLOSE_LONG" /\ trade_type = "SELL")

get_trades_by_type(m, objs, trade_type) ==
    SelectSeq(m.trade_history, LAMBDA r : objs[r].trade_type = trade_type)

\* sum(trade.commission for trade in refs), from Python's start value 0.
RECURSIVE sum_commission(_, _)
sum_commission(refs, objs) ==
    IF refs = <<>> THEN Zero
    ELSE RAdd(sum_commission(SubSeq(refs, 1, Len(refs) - 1), objs),
              objs[refs[Len(refs)]].commission)

RECURSIVE sum_realized_pnl(_, _)
sum_realized_pnl(refs, objs) ==
    IF refs = <<>> THEN Zero
    ELSE RAdd(sum_realized_pnl(SubSeq(refs, 1, Len(refs) - 1), objs),
              objs[refs[Len(refs)]].realized_pnl)

get_total_commission(m, objs) == sum_commission(get_filled_trades(m, objs), objs)
get_total_realized_pnl(m, objs) == sum_realized_pnl(get_filled_trades(m, objs), objs)
get_trade_count(m) == Len(m.trade_history)

\* clear_trades that empties the log and keeps the id map.
clear_trades_log_only(m) == [trades |-> m.trades, trade_history |-> <<>>]

clear_trades(m) == [trades |-> NoTrades, trade_history |-> <<>>]

get_trade_summary(m, objs) ==
    LET filled_trades == get_filled_trades(m, objs)
    IN  [total_trades |-> Len(m.trade_history),
         filled_trades |-> Len(filled_trades),
         pending_trades |-> Len(get_pending_trades(m, objs)),
         total_commission |-> get_total_commission(m, objs),
         total_realized_pnl |-> get_total_realized_pnl(m, objs),
         buy_trades |-> Len(get_trades_by_type(m, objs, "BUY")),
         sell_trades |-> Len(get_trades_by_type(m, objs, "SELL")),
         close_long_trades |-> Len(get_trades_by_type(m, objs, "CLOSE_LONG")),
         close_short_trades |-> Len(get_trades_by_type(m, objs, "CLOSE_SHORT"))]

----------------------------------------------------------------------------
(* Signal *)

SignalType == {"BUY", "SELL", "HOLD", "CLOSE", "CLOSE_LONG", "CLOSE_SHORT"}

SignalOk(s) == [signal |-> s, err |-> "none"]
SignalRaise(s, err) == [signal |-> s, err |-> err]

\* Signal.__post_init__ that accepts a limit order without a limit price.
signal_post_init_any_limit(signal_type, quantity, price_type, limit_price, stop_price, take_profit) ==
    LET s == [signal_type |-> signal_type, quantity |-> quantity,
              price_type |-> price_type, limit_price |-> limit_price,
              stop_price |-> stop_price, take_profit |-> take_profit, priority |-> 0]
    IN  IF quantity = Zero THEN SignalRaise(s, "ValueError: quantity == 0")
        ELSE IF stop_price # None /\ RLe(stop_price[1], Zero)
        THEN SignalRaise(s, "ValueError: stop_price <= 0")
        ELSE IF take_profit # None /\ RLe(take_profit[1], Zero)
        THEN SignalRaise(s, "ValueError: take_profit <= 0")
        ELSE SignalOk(s)

\* Signal.__post_init__: the dataclass constructor (priority at its default)
\* with its validation; limit_price, stop_price and take_profit are None or
\* <<value>>.
signal_post_init(signal_type, quantity, price_type, limit_price, stop_price, take_profit) ==
    LET s == [signal_type |-> signal_type, quantity |-> quantity,
              price_type |-> price_type, limit_price |-> limit_price,
              stop_price |-> stop_price, take_profit |-> take_profit, priority |-> 0]
    IN  IF quantity = Zero THEN SignalRaise(s, "ValueError: quantity == 0")
        ELSE IF price_type = "limit" /\ limit_price = None
        THEN SignalRaise(s, "ValueError: limit order without limit_price")
        ELSE IF stop_price # None /\ RLe(stop_price[1], Zero)
        THEN SignalRaise(s, "ValueError: stop_price <= 0")
        ELSE IF take_profit # None /\ RLe(take_profit[1], Zero)
        THEN SignalRaise(s, "ValueError: take_profit <= 0")
        ELSE SignalOk(s)

\* direction that treats a SELL signal like a BUY signal.
direction_sell_as_buy(s) ==
    IF s.signal_type \in {"BUY", "SELL"} THEN (IF RLt(Zero, s.quantity) THEN 1 ELSE -1)
    ELSE IF s.signal_type \in {"CLOSE", "CLOSE_LONG", "CLOSE_SHORT"} THEN 0
    ELSE (IF RLt(Zero, s.quantity) THEN 1 ELSE -1)

direction(s) ==
    IF s.signal_type \in {"BUY"} THEN (IF RLt(Zero, s.quantity) THEN 1 ELSE -1)
    ELSE IF s.signal_type \in {"SELL"} THEN (IF RLt(Zero, s.quantity) THEN -1 ELSE 1)
    ELSE IF s.signal_type \in {"CLOSE", "CLOSE_LONG", "CLOSE_SHORT"} THEN 0
    ELSE (IF RLt(Zero, s.quantity) THEN 1 ELSE -1)

\* The factories, called without keyword arguments.
buy_signal(quantity) == signal_post_init("BUY", RAbs(quantity), "market", None, None, None)
sell_signal(quantity) == signal_post_init("SELL", RAbs(quantity), "market", None, None, None)

\* close_signal that closes one unit when no quantity is given.
close_signal_one_unit(quantity) ==
    signal_post_init("CLOSE", IF quantity = None THEN I(1) ELSE quantity[1],
                     "market", None, None, None)

\* quantity is None or <<value>>; "quantity or 0" is 0 for None and for 0.
close_signal(quantity) ==
    signal_post_init("CLOSE", IF quantity = None THEN Zero ELSE quantity[1],
                     "market", None, None, None)

hold_signal == signal_post_init("HOLD", Zero, "market", None, None, None)

\* SimpleStrategy.on_bar: fast_ma and slow_ma are the two calculate_sma values,
\* None (too little history) or <<value>>; ps is the strategy's registry.  The
\* outcome is [ret, err] with ret None or <<signal>>.
on_bar(fast_ma, slow_ma, ps, symbol, now) ==
    IF fast_ma = None \/ slow_ma = None THEN [ret |-> None, err |-> "none"]
    ELSE LET g == get_position(ps, symbol, now)
         IN  IF g.err # "none" THEN [ret |-> None, err |-> g.err]
             ELSE LET current_position == g.pos[symbol]
                      made == IF RLt(slow_ma[1], fast_ma[1]) /\ is_flat(current_position)
                              THEN <<buy_signal(I(1))>>
                              ELSE IF RLt(fast_ma[1], slow_ma[1]) /\ is_long(current_position)
                              THEN <<close_signal(None)>>
                              ELSE None
                  IN  IF made = None THEN [ret |-> None, err |-> "none"]
                      ELSE IF made[1].err # "none" THEN [ret |-> None, err |-> made[1].err]
                      ELSE [ret |-> <<made[1].signal>>, err |-> "none"]

----------------------------------------------------------------------------
(* DataCache *)

\* A DataCache c is [max_memory_items, memory_cache, access_order]; d is the
\* content of its cache directory.  An outcome is [cache, disk, evicted, ret,
\* err], evicted being the keys deleted from memory by _manage_memory_cache.

NoData == [k \in {} |-> ""]
NoUse == [k \in {} |-> 0]

Put(f, key, data) == [k \in DOMAIN f \cup {key} |-> IF k = key THEN data ELSE f[k]]
Drop(f, key) == [k \in DOMAIN f \ {key} |-> f[k]]

\* list.remove(key): the first occurrence of key leaves the list.
RECURSIVE list_remove(_, _)
list_remove(l, key) ==
    IF l = <<>> THEN l
    ELSE IF Head(l) = key THEN Tail(l)
    ELSE <<Head(l)>> \o list_remove(Tail(l), key)

InList(l, key) == \E i \in 1 .. Len(l) : l[i] = key

data_cache_init(max_memory_items) ==
    [max_memory_items |-> max_memory_items, memory_cache |-> NoData, access_order |-> <<>>]

\* _manage_memory_cache: pop(0) on an empty list raises IndexError.
RECURSIVE manage_memory_cache(_, _)
manage_memory_cache(c, evicted) ==
    IF Cardinality(DOMAIN c.memory_cache) <= c.max_memory_items
    THEN [cache |-> c, evicted |-> evicted, err |-> "none"]
    ELSE IF c.access_order = <<>>
    THEN [cache |-> c, evicted |-> evicted, err |-> "IndexError"]
    ELSE LET oldest_key == Head(c.access_order)
             c1 == [c EXCEPT !.access_order = Tail(c.access_order)]
         IN  IF oldest_key \in DOMAIN c1.memory_cache
             THEN manage_memory_cache(
                      [c1 EXCEPT !.memory_cache = Drop(c1.memory_cache, oldest_key)],
                      Append(evicted, oldest_key))
             ELSE manage_memory_cache(c1, evicted)

\* _update_access_order that leaves a key already in the list at its place.
update_access_order_keep_place(c, key) ==
    IF InList(c.access_order, key) THEN c
    ELSE [c EXCEPT !.access_order = Append(c.access_order, key)]

update_access_order(c, key) ==
    LET l == IF InList(c.access_order, key) THEN list_remove(c.access_order, key)
             ELSE c.access_order
    IN  [c EXCEPT !.access_order = Append(l, key)]

\* The three lines shared by set and by the disk branch of get.
store_in_memory(c, key, data) ==
    manage_memory_cache(
        update_access_order([c EXCEPT !.memory_cache = Put(c.memory_cache, key, data)], key),
        <<>>)

\* set: _save_to_disk writes the pickle file (a failure of the file system is
\* swallowed there and is not modelled).
set(c, d, key, data, persist_to_disk) ==
    LET m == store_in_memory(c, key, data)
    IN  [cache |-> m.cache, evicted |-> m.evicted, ret |-> None, err |-> m.err,
         disk |-> IF m.err = "none" /\ persist_to_disk THEN Put(d, key, data) ELSE d]

get(c, d, key, load_from_disk) ==
    IF key \in DOMAIN c.memory_cache
    THEN [cache |-> update_access_order(c, key), evicted |-> <<>>,
          ret |-> <<c.memory_cache[key]>>, err |-> "none", disk |-> d]
    ELSE IF load_from_disk /\ key \in DOMAIN d
    THEN LET m == store_in_memory(c, key, d[key])
         IN  [cache |-> m.cache, evicted |-> m.evicted,
              ret |-> IF m.err = "none" THEN <<d[key]>> ELSE None, err |-> m.err, disk |-> d]
    ELSE [cache |-> c, evicted |-> <<>>, ret |-> None, err |-> "none", disk |-> d]

remove(c, d, key, remove_from_disk) ==
    LET in_memory == key \in DOMAIN c.memory_cache
        c1 == IF in_memory
              THEN [c EXCEPT !.memory_cache = Drop(c.memory_cache, key),
                             !.access_order = IF InList(c.access_order, key)
                                              THEN list_remove(c.access_order, key)
                                              ELSE c.access_order]
              ELSE c
        disk_removed == remove_from_disk /\ key \in DOMAIN d
    IN  [cache |-> c1, evicted |-> <<>>, ret |-> <<in_memory \/ disk_removed>>,
         err |-> "none", disk |-> IF disk_removed THEN Drop(d, key) ELSE d]

clear(c, d, clear_disk) ==
    [cache |-> [c EXCEPT !.memory_cache = NoData, !.access_order = <<>>],
     evicted |-> <<>>, ret |-> None, err |-> "none",
     disk |-> IF clear_disk THEN NoData ELSE d]

----------------------------------------------------------------------------
(* The calls as actions *)

NoArg == "-"
EmptyRegistry == [s \in {} |-> Zero]

Call(op, symbol, quantity, side, price, out) ==
    [op |-> op, symbol |-> symbol, quantity |-> quantity, side |-> side,
     price |-> price, before |-> positions, ret |-> out.ret, err |-> out.err]

Init ==
    /\ positions = EmptyRegistry
    /\ last = [op |-> "init", symbol |-> NoArg, quantity |-> Zero, side |-> NoArg,
               price |-> Zero, before |-> EmptyRegistry, ret |-> None, err |-> "none"]
    /\ hist = <<>>
    /\ steps = 0
    /\ trade = None
    /\ tlast = [op |-> "init", args |-> None, fill_price |-> None, fill_time |-> None,
                reason |-> "", before |-> None, err |-> "none"]
    /\ objects = <<>>
    /\ trades = NoTrades
    /\ trade_history = <<>>
    /\ llast = [op |-> "init", count |-> 0, added |-> 0]
    /\ signal = None
    /\ slast = [op |-> "init", args |-> None, err |-> "none"]
    /\ plast = [op |-> "init", exit_price |-> Zero, before |-> None, ret |-> None]
    /\ cache = None
    /\ disk = NoData
    /\ used = NoUse
    /\ clast = [op |-> "init", key |-> NoArg, before |-> None, evicted |-> <<>>,
                ret |-> None, err |-> "none"]

Now == steps + 1

\* The effect of a call on the registry, the record of the call and the clock.
Effect(ps, call) ==
    /\ positions' = ps
    /\ last' = call
    /\ steps' = Now

\* A caller builds a Position (create_long_position, create_short_position, or
\* the constructor for a flat one) and stores it in the manager's public map.
\* The arguments honour the data model: quantity = 0 exactly for FLAT.
NewPosition(s, side, q, p) ==
    /\ s \notin DOMAIN positions
    /\ (side = "FLAT") <=> (q = Zero)
    /\ RLt(Zero, p)
    /\ LET out == IF side = "LONG" THEN create_long_position(q, p, Now)
                  ELSE IF side = "SHORT" THEN create_short_position(q, p, Now)
                  ELSE post_init("FLAT", q, p, p, Now)
       IN  Effect(IF out.err = "none"
                  THEN [x \in DOMAIN positions \cup {s} |->
                          IF x = s THEN out.pos ELSE positions[x]]
                  ELSE positions,
                  Call("new", s, q, side, p, out))

\* A method of the Position registered under s.
OnPosition(op, s, q, p, out) ==
    Effect([positions EXCEPT ![s] = out.pos], Call(op, s, q, NoArg, p, out))

AddPosition(s, q, p) ==
    /\ s \in DOMAIN positions
    /\ OnPosition("add_position", s, q, p, add_position(positions[s], q, p, Now))

ReducePosition(s, q, p) ==
    /\ s \in DOMAIN positions
    /\ OnPosition("reduce_position", s, q, p, reduce_position(positions[s], q, p, Now))

ClosePosition(s, p) ==
    /\ s \in DOMAIN positions
    /\ OnPosition("close_position", s, Zero, p, close_position(positions[s], p, Now))

ReversePosition(s, q, p) ==
    /\ s \in DOMAIN positions
    /\ OnPosition("reverse_position", s, q, p, reverse_position(positions[s], q, p, Now))

UpdatePrice(s, p) ==
    /\ s \in DOMAIN positions
    /\ OnPosition("update_price", s, Zero, p, update_price(positions[s], p, Now))

GetPosition(s) ==
    LET out == get_position(positions, s, Now)
    IN  Effect(out.pos,
               Call("get_position", s, Zero, NoArg, Zero,
                    IF out.err = "none" THEN Ok(out.pos, <<out.pos[s]>>) ELSE out))

UpdatePosition(s, q, side, p) ==
    /\ side = "FLAT" => q = Zero    \* the FLAT branch does not read quantity
    /\ LET out == update_position(positions, s, q, side, p, Now)
       IN  Effect(out.pos, Call("update_position", s, q, side, p, out))

Symbol == "IF2306"
Quantities == {I(n) : n \in 0 .. MaxQty}
Prices == {I(n) : n \in 0 .. MaxPrice}

\* One call of a behaviour of at most n calls that keeps no call history.
Step(n, A) ==
    /\ steps < n
    /\ A
    /\ UNCHANGED <<hist, trade, tlast, otherVars>>

\* The methods of a Position object.
Next ==
    \/ \E q \in Quantities, p \in Prices, side \in PositionSide :
            Step(MaxOps, NewPosition(Symbol, side, q, p))
    \/ \E q \in Quantities, p \in Prices : Step(MaxOps, AddPosition(Symbol, q, p))
    \/ \E q \in Quantities, p \in Prices : Step(MaxOps, ReducePosition(Symbol, q, p))
    \/ \E p \in Prices : Step(MaxOps, ClosePosition(Symbol, p))
    \/ \E q \in Quantities, p \in Prices : Step(MaxOps, ReversePosition(Symbol, q, p))
    \/ \E p \in Prices : Step(MaxOps, UpdatePrice(Symbol, p))

Spec == Init /\ [][Next]_vars

\* The methods of the PositionManager, on positions stored in its map.
ManagerNext ==
    \/ \E q \in Quantities, p \in Prices, side \in PositionSide :
            Step(MaxOps, NewPosition(Symbol, side, q, p))
    \/ Step(MaxOps, GetPosition(Symbol))
    \/ \E q \in Quantities, p \in Prices, side \in PositionSide :
            Step(MaxOps, UpdatePosition(Symbol, q, side, p))

ManagerSpec == Init /\ [][ManagerNext]_vars

\* The methods of a Position and of the PositionManager, interleaved.
FullNext ==
    \/ Next
    \/ Step(MaxOps, GetPosition(Symbol))
    \/ \E q \in Quantities, p \in Prices, side \in PositionSide :
            Step(MaxOps, UpdatePosition(Symbol, q, side, p))

FullSpec == Init /\ [][FullNext]_vars

\* One call of a behaviour of at most n calls that keeps every call in hist.
SeqStep(n, A) ==
    /\ steps < n
    /\ A
    /\ hist' = Append(hist, last')
    /\ UNCHANGED <<trade, tlast, otherVars>>

\* Sequences of add_position and reduce_position calls with positive
\* arguments on one Position.
PositiveQuantities == {I(n) : n \in 1 .. MaxQty}
PositivePrices == {I(n) : n \in 1 .. MaxPrice}

SeqNext ==
    \/ \E q \in Quantities, p \in PositivePrices, side \in PositionSide :
            SeqStep(MaxSeq, NewPosition(Symbol, side, q, p))
    \/ \E q \in PositiveQuantities, p \in PositivePrices :
            SeqStep(MaxSeq, AddPosition(Symbol, q, p))
    \/ \E q \in PositiveQuantities, p \in PositivePrices :
            SeqStep(MaxSeq, ReducePosition(Symbol, q, p))

SeqSpec == Init /\ [][SeqNext]_vars

\* The same sequences over the quantities and prices of the documented example.
ExampleQuantities == {I(4), I(5)}
ExamplePrices == {I(4000), I(4100), I(4200)}

ExampleNext ==
    \/ \E p \in ExamplePrices : SeqStep(MaxExampleOps, NewPosition(Symbol, "FLAT", Zero, p))
    \/ \E q \in ExampleQuantities, p \in ExamplePrices :
            SeqStep(MaxExampleOps, AddPosition(Symbol, q, p))
    \/ \E q \in ExampleQuantities, p \in ExamplePrices :
            SeqStep(MaxExampleOps, ReducePosition(Symbol, q, p))

ExampleSpec == Init /\ [][ExampleNext]_vars

\* update_prices is recorded with its map of prices in the price field.
UpdatePrices(prices) ==
    LET out == update_prices(positions, prices, Now)
    IN  Effect(out.pos, Call("update_prices", NoArg, Zero, NoArg, prices, out))

\* Two symbols; each Position is built flat or with one unit held, and the
\* maps of prices cover every subset of the two symbols, registered or not.
MarkSymbols == {Symbol, "IC2306"}
UnitQuantities == {Zero, I(1)}
PriceMaps == UNION {[keys -> Prices] : keys \in SUBSET MarkSymbols}

MarkNext ==
    \/ \E s \in MarkSymbols, q \in UnitQuantities, p \in PositivePrices, side \in PositionSide :
            Step(MaxMarkOps, NewPosition(s, side, q, p))
    \/ \E s \in MarkSymbols, p \in Prices : Step(MaxMarkOps, ClosePosition(s, p))
    \/ \E prices \in PriceMaps : Step(MaxMarkOps, UpdatePrices(prices))

MarkSpec == Init /\ [][MarkNext]_vars

----------------------------------------------------------------------------
(* The Trade calls as actions *)

\* args is the tuple of constructor arguments of a "new" call, None otherwise.
TradeCall(op, args, fill_price, fill_time, reason, out) ==
    [op |-> op, args |-> args, fill_price |-> fill_price, fill_time |-> fill_time,
     reason |-> reason, before |-> trade, err |-> out.err]

TradeEffect(t, call) ==
    /\ trade' = t
    /\ tlast' = call
    /\ steps' = Now
    /\ UNCHANGED <<positions, last, hist, otherVars>>

\* The construction is the first call of a behaviour: a construction that
\* fails yields no object to call.
NewTrade(trade_type, quantity, price, commission, slippage) ==
    /\ trade = None /\ steps = 0
    /\ LET out == trade_post_init(trade_type, quantity, price, commission, slippage)
       IN  TradeEffect(IF out.err = "none" THEN <<out.trade>> ELSE None,
                       TradeCall("new", <<trade_type, quantity, price, commission, slippage>>,
                                 None, None, "", out))

Fill(fill_price, fill_time) ==
    /\ trade # None
    /\ LET out == fill(trade[1], fill_price, fill_time, Now)
       IN  TradeEffect(<<out.trade>>, TradeCall("fill", None, fill_price, fill_time, "", out))

Cancel ==
    /\ trade # None
    /\ LET out == cancel(trade[1])
       IN  TradeEffect(<<out.trade>>, TradeCall("cancel", None, None, None, "", out))

Reject(reason) ==
    /\ trade # None
    /\ LET out == reject(trade[1], reason)
       IN  TradeEffect(<<out.trade>>, TradeCall("reject", None, None, None, reason, out))

Commissions == {I(-1), Zero, I(1)}
Slippages == {I(-1), Zero, I(1)}
FillPrices == {None} \cup {<<p>> : p \in Prices}
FillTimes == {None, <<0>>}
Reasons == {"", "margin"}

TradeStep(A) == steps < MaxTradeOps /\ A

TradeNext ==
    \/ \E ty \in TradeType, q \in Quantities, p \in Prices,
          c \in Commissions, sl \in Slippages : TradeStep(NewTrade(ty, q, p, c, sl))
    \/ \E fp \in FillPrices, ft \in FillTimes : TradeStep(Fill(fp, ft))
    \/ TradeStep(Cancel)
    \/ \E r \in Reasons : TradeStep(Reject(r))

TradeSpec == Init /\ [][TradeNext]_vars

\* calculate_pnl reads the Trade and changes nothing.
CalculatePnl(exit_price) ==
    /\ trade # None
    /\ plast' = [op |-> "calculate_pnl", exit_price |-> exit_price, before |-> trade,
                 ret |-> <<calculate_pnl(trade[1], exit_price)>>]
    /\ steps' = Now
    /\ UNCHANGED <<positions, last, hist, trade, tlast, ledgerVars, signalVars, cacheVars>>

ExitPrices == {I(n) : n \in -MaxPrice .. MaxPrice}

\* A Trade, filled or not, asked for its PnL at an exit price.
PnlNext ==
    \/ \E ty \in TradeType, q \in Quantities, p \in Prices,
          c \in Commissions, sl \in Slippages : TradeStep(NewTrade(ty, q, p, c, sl))
    \/ \E fp \in FillPrices, ft \in FillTimes : TradeStep(Fill(fp, ft))
    \/ \E x \in ExitPrices : TradeStep(CalculatePnl(x))

PnlSpec == Init /\ [][PnlNext]_vars

----------------------------------------------------------------------------
(* The DataCache calls as actions *)

CacheEffect(op, key, out, touched) ==
    /\ steps < MaxCacheOps
    /\ cache' = <<out.cache>>
    /\ disk' = out.disk
    /\ used' = IF touched THEN Put(used, key, Now) ELSE used
    /\ clast' = [op |-> op, key |-> key, before |-> cache, evicted |-> out.evicted,
                 ret |-> out.ret, err |-> out.err]
    /\ steps' = Now
    /\ UNCHANGED <<positions, last, hist, trade, tlast, ledgerVars, signalVars, plast>>

\* DataCache(cache_dir, max_memory_items) on an empty cache directory.
NewCache(max_memory_items) ==
    /\ cache = None
    /\ CacheEffect("new", NoArg,
                   [cache |-> data_cache_init(max_memory_items), disk |-> disk,
                    evicted |-> <<>>, ret |-> None, err |-> "none"], FALSE)

CacheSet(key, data, persist_to_disk) ==
    /\ cache # None
    /\ CacheEffect("set", key, set(cache[1], disk, key, data, persist_to_disk), TRUE)

\* A get that returns data has read the key.
CacheGet(key, load_from_disk) ==
    /\ cache # None
    /\ LET out == get(cache[1], disk, key, load_from_disk)
       IN  CacheEffect("get", key, out, out.ret # None)

CacheRemove(key, remove_from_disk) ==
    /\ cache # None
    /\ CacheEffect("remove", key, remove(cache[1], disk, key, remove_from_disk), FALSE)

CacheClear(clear_disk) ==
    /\ cache # None
    /\ CacheEffect("clear", NoArg, clear(cache[1], disk, clear_disk), FALSE)

CacheKeys == {"k1", "k2", "k3"}
CacheData == "bars"

\* get, remove and clear are called with their default flags.
CacheNext ==
    \/ \E n \in 0 .. MaxMemoryItems : NewCache(n)
    \/ \E k \in CacheKeys, persist \in BOOLEAN : CacheSet(k, CacheData, persist)
    \/ \E k \in CacheKeys : CacheGet(k, TRUE)
    \/ \E k \in CacheKeys : CacheRemove(k, TRUE)
    \/ CacheClear(FALSE)

CacheSpec == Init /\ [][CacheNext]_vars

----------------------------------------------------------------------------
(* The TradeManager calls as actions *)

Ledger == [trades |-> trades, trade_history |-> trade_history]

LedgerEffect(objs, m, op) ==
    /\ objects' = objs
    /\ trades' = m.trades
    /\ trade_history' = m.trade_history
    /\ llast' = [op |-> op, count |-> Len(trade_history),
                 added |-> IF op = "add_trade" THEN llast.added + 1
                           ELSE IF op = "clear_trades" THEN 0 ELSE llast.added]
    /\ UNCHANGED <<positions, last, hist, steps, trade, tlast, signalVars, plast, cacheVars>>

\* The caller constructs a Trade and hands it to add_trade.
AddTrade(trade_id, trade_type, commission, realized_pnl) ==
    /\ Len(trade_history) < MaxLedger
    /\ LET c == ledger_trade(trade_id, trade_type, I(1), I(1), commission, realized_pnl)
           objs == Append(objects, c.trade)
       IN  /\ c.err = "none"
           /\ LedgerEffect(objs, add_trade(Ledger, objs, Len(objs)), "add_trade")

\* The holder of a stored Trade that is still pending fills, cancels or
\* rejects it.  The queries of the TradeManager read trade_id, trade_type,
\* status, commission and realized_pnl only, and every combination of statuses
\* in the log is reached this way.
Pending(r) == r \in 1 .. Len(objects) /\ is_pending(objects[r])

OnStored(r, out, op) == LedgerEffect([objects EXCEPT ![r] = out.trade], Ledger, op)

FillTrade(r) == Pending(r) /\ OnStored(r, fill(objects[r], None, <<0>>, Now), "fill")
CancelTrade(r) == Pending(r) /\ OnStored(r, cancel(objects[r]), "cancel")
RejectTrade(r) == Pending(r) /\ OnStored(r, reject(objects[r], "margin"), "reject")

\* clear_trades drops the manager's references; the objects of the cleared
\* log take no part in any later query.
ClearTrades ==
    /\ llast.op # "clear_trades"    \* a second clear_trades in a row changes nothing
    /\ LedgerEffect(<<>>, clear_trades(Ledger), "clear_trades")

\* The trades handed to add_trade: <<trade_id, trade_type, commission,
\* realized_pnl>>, two trade_ids each used by an opening and a closing trade.
LedgerTrades ==
    {<<"t1", "BUY", I(1), Zero>>, <<"t2", "SELL", I(2), Zero>>,
     <<"t1", "CLOSE_LONG", I(1), I(2)>>, <<"t2", "CLOSE_SHORT", Zero, I(-1)>>}

LedgerNext ==
    \/ \E a \in LedgerTrades : AddTrade(a[1], a[2], a[3], a[4])
    \/ \E r \in 1 .. MaxLedger : FillTrade(r)
    \/ \E r \in 1 .. MaxLedger : CancelTrade(r)
    \/ \E r \in 1 .. MaxLedger : RejectTrade(r)
    \/ ClearTrades

LedgerSpec == Init /\ [][LedgerNext]_vars

----------------------------------------------------------------------------
(* The Signal constructions as actions *)

\* A construction that returns yields the Signal; one that raises yields
\* none.  A Signal has no method that changes it, so a behaviour is one
\* construction.
SignalEffect(op, args, out) ==
    /\ signal' = IF out.err = "none" THEN <<out.signal>> ELSE None
    /\ slast' = [op |-> op, args |-> args, err |-> out.err]
    /\ UNCHANGED <<positions, last, hist, steps, trade, tlast, ledgerVars, plast, cacheVars>>

NoSignalYet == slast.op = "init"

NewSignal(signal_type, quantity, price_type, limit_price, stop_price, take_profit) ==
    /\ NoSignalYet
    /\ SignalEffect("new",
                    <<signal_type, quantity, price_type, limit_price, stop_price, take_profit>>,
                    signal_post_init(signal_type, quantity, price_type, limit_price,
                                     stop_price, take_profit))

BuySignal(quantity) ==
    NoSignalYet /\ SignalEffect("buy_signal", <<quantity>>, buy_signal(quantity))
SellSignal(quantity) ==
    NoSignalYet /\ SignalEffect("sell_signal", <<quantity>>, sell_signal(quantity))
CloseSignal(quantity) ==
    NoSignalYet /\ SignalEffect("close_signal", <<quantity>>, close_signal(quantity))
HoldSignal == NoSignalYet /\ SignalEffect("hold_signal", None, hold_signal)

\* on_bar of a strategy whose registry is ps; a registered symbol leaves the
\* registry as it is, and for a new one get_position raises before it
\* registers anything.
OnBar(fast_ma, slow_ma, ps) ==
    /\ NoSignalYet
    /\ LET out == on_bar(fast_ma, slow_ma, ps, Symbol, Now)
       IN  /\ signal' = out.ret
           /\ slast' = [op |-> "on_bar", args |-> <<fast_ma, slow_ma, ps>>, err |-> out.err]
    /\ UNCHANGED <<positions, last, hist, steps, trade, tlast, ledgerVars, plast, cacheVars>>

MovingAverages == {None} \cup {<<p>> : p \in PositivePrices}
Registered(out) == [s \in {Symbol} |-> out.pos]
BarRegistries ==
    {EmptyRegistry}
        \cup {Registered(post_init("FLAT", Zero, p, p, 0)) : p \in PositivePrices}
        \cup {Registered(create_long_position(q, p, 0)) :
                  q \in PositiveQuantities, p \in PositivePrices}
        \cup {Registered(create_short_position(q, p, 0)) :
                  q \in PositiveQuantities, p \in PositivePrices}

SignedQuantities == {I(n) : n \in -MaxQty .. MaxQty}
PriceTypes == {"market", "limit"}
OptionalPrices == {None} \cup {<<I(n)>> : n \in -1 .. 1}

SignalNext ==
    \/ \E ty \in SignalType, q \in SignedQuantities, pt \in PriceTypes,
          lp \in OptionalPrices, sp \in OptionalPrices, tp \in OptionalPrices :
            NewSignal(ty, q, pt, lp, sp, tp)
    \/ \E q \in SignedQuantities : BuySignal(q)
    \/ \E q \in SignedQuantities : SellSignal(q)
    \/ \E q \in {None} \cup {<<x>> : x \in SignedQuantities} : CloseSignal(q)
    \/ HoldSignal
    \/ \E fast \in MovingAverages, slow \in MovingAverages, ps \in BarRegistries :
            OnBar(fast, slow, ps)

SignalSpec == Init /\ [][SignalNext]_vars

----------------------------------------------------------------------------
(* Properties *)

Pos == positions[Symbol]
Before == last.before[Symbol]
OnExisting(op) == last.op = op /\ Symbol \in DOMAIN last.before

direction_sign(side) == IF side = "LONG" THEN I(1) ELSE IF side = "SHORT" THEN I(-1) ELSE Zero
Opposite(side) == IF side = "LONG" THEN "SHORT" ELSE IF side = "SHORT" THEN "LONG" ELSE "FLAT"
ClosedPnl(p, quantity, price) ==
    RMul(RMul(quantity, RSub(price, p.avg_price)), direction_sign(p.side))

TerminalStatus == {"FILLED", "CANCELLED", "REJECTED"}
OnTrade == tlast.op \in {"fill", "cancel", "reject"}

\* C1: in every reachable state a Position has quantity = 0 exactly when its
\* side is FLAT.
C1_QuantityZeroIffFlat ==
    \A s \in DOMAIN positions : (positions[s].quantity = Zero) <=> (positions[s].side = "FLAT")

\* C2: once a Trade's status is FILLED, CANCELLED or REJECTED, no fill, cancel
\* or reject call changes it.
C2_TerminalStatusIsFinal ==
    (OnTrade /\ tlast.before[1].status \in TerminalStatus)
        => trade[1].status = tlast.before[1].status

\* C3: fill, cancel or reject on a Trade whose status is already terminal
\* fails with an error instead of completing.
C3_TerminalCallFails ==
    (OnTrade /\ tlast.before[1].status \in TerminalStatus) => tlast.err # "none"

\* C4: reverse_position(new_qty > 0, price) on a non-flat Position returns the
\* old exposure's PnL at price and leaves the Position on the opposite side
\* with quantity = new_qty and avg_price = price.
C4_ReverseFlipsSide ==
    (/\ OnExisting("reverse_position") /\ ~is_flat(Before)
     /\ RLt(Zero, last.quantity) /\ RLt(Zero, last.price))
        => /\ last.err = "none"
           /\ last.ret = <<ClosedPnl(Before, Before.quantity, last.price)>>
           /\ Pos.side = Opposite(Before.side)
           /\ Pos.quantity = last.quantity
           /\ Pos.avg_price = last.price

RECURSIVE SumQuantity(_, _)
SumQuantity(h, i) == IF i > Len(h) THEN Zero ELSE RAdd(h[i].quantity, SumQuantity(h, i + 1))

RECURSIVE SumCost(_, _)
SumCost(h, i) ==
    IF i > Len(h) THEN Zero
    ELSE RAdd(RMul(h[i].quantity, h[i].price), SumCost(h, i + 1))

\* hist is the construction of a flat Position followed by add_position calls only.
AddsFromFlat ==
    /\ Len(hist) >= 2
    /\ hist[1].op = "new" /\ hist[1].side = "FLAT" /\ hist[1].err = "none"
    /\ \A i \in 2 .. Len(hist) :
         /\ hist[i].op = "add_position"
         /\ RLt(Zero, hist[i].quantity) /\ RLt(Zero, hist[i].price)

\* C5: after a non-empty sequence of add_position(qty_i, price_i) calls with
\* positive arguments on a Position that started flat, quantity is the sum of
\* the qty_i and avg_price is sum(qty_i * price_i) / sum(qty_i).
C5_AddsAverage ==
    AddsFromFlat
        => /\ Pos.quantity = SumQuantity(hist, 2)
           /\ Pos.avg_price = RDiv(SumCost(hist, 2), SumQuantity(hist, 2))

\* The Position as call i of hist left it.
After(i) == IF i < Len(hist) THEN hist[i + 1].before[Symbol] ELSE positions[Symbol]
IsCall(i, op, quantity, price) ==
    hist[i].op = op /\ hist[i].quantity = I(quantity) /\ hist[i].price = I(price)

\* C6: from a flat Position, add_position(5, 4000) gives 5 @ 4000, then
\* add_position(5, 4100) gives 10 @ 4050, then reduce_position(4, 4200)
\* returns 600 and leaves 6 @ 4050.
C6_DocumentedExample ==
    (/\ Len(hist) = 4
     /\ hist[1].op = "new" /\ hist[1].side = "FLAT" /\ hist[1].err = "none"
     /\ IsCall(2, "add_position", 5, 4000)
     /\ IsCall(3, "add_position", 5, 4100)
     /\ IsCall(4, "reduce_position", 4, 4200))
        => /\ After(2).quantity = I(5) /\ After(2).avg_price = I(4000)
           /\ After(3).quantity = I(10) /\ After(3).avg_price = I(4050)
           /\ hist[4].ret = <<I(600)>>
           /\ After(4).quantity = I(6) /\ After(4).avg_price = I(4050)

ReduceWithinHolding ==
    /\ OnExisting("reduce_position")
    /\ Before.side \in {"LONG", "SHORT"}
    /\ RLt(Zero, last.quantity) /\ RLe(last.quantity, Before.quantity)

\* C7: reduce_position(qty, price) with 0 < qty <= quantity on a LONG or SHORT
\* Position returns qty * (price - avg_price) * direction_sign, adds exactly
\* that to realized_pnl, lowers quantity by qty and, when quantity stays
\* positive, leaves avg_price unchanged.
C7_ReduceRealizes ==
    ReduceWithinHolding
        => /\ last.err = "none"
           /\ last.ret = <<ClosedPnl(Before, last.quantity, last.price)>>
           /\ Pos.realized_pnl =
                RAdd(Before.realized_pnl, ClosedPnl(Before, last.quantity, last.price))
           /\ Pos.quantity = RSub(Before.quantity, last.quantity)
           /\ RLt(Zero, Pos.quantity) => Pos.avg_price = Before.avg_price

\* A partial reduction of a SHORT position at a price other than its cost basis.
C7_Witness ==
    /\ ReduceWithinHolding
    /\ Before.side = "SHORT"
    /\ RLt(Zero, Pos.quantity)
    /\ last.ret # <<Zero>>

ReduceBeyondHolding ==
    OnExisting("reduce_position") /\ RLt(Before.quantity, last.quantity)

\* C8: reduce_position with qty greater than the held quantity fails with the
\* error for an insufficient position and leaves the Position as it was.
C8_ReduceBeyondHoldingFails ==
    ReduceBeyondHolding
        => /\ last.err # "none"
           /\ RLt(Zero, last.quantity) => last.err = "ValueError: reduce quantity > held quantity"
           /\ Pos = Before

\* A reduction of a held LONG or SHORT position by more than it holds.
C8_Witness ==
    /\ ReduceBeyondHolding
    /\ ~is_flat(Before)
    /\ last.err # "none"

\* The two latest calls are reduce_position(q, p) then add_position(q, p) on a
\* Position that was not flat and held at least q.
Reduced == hist[Len(hist) - 1]
PreReduce == Reduced.before[Symbol]
RoundTrip ==
    /\ Len(hist) >= 3
    /\ Reduced.op = "reduce_position" /\ last.op = "add_position"
    /\ last.quantity = Reduced.quantity /\ last.price = Reduced.price
    /\ ~is_flat(PreReduce)
    /\ RLt(Zero, Reduced.quantity) /\ RLe(Reduced.quantity, PreReduce.quantity)
    /\ RLt(Zero, Reduced.price)

\* C9 as stated: reduce_position(q, p) immediately followed by
\* add_position(q, p) restores the pre-reduce quantity and avg_price exactly.
C9_RoundTripRestores ==
    RoundTrip
        => /\ Pos.quantity = PreReduce.quantity
           /\ Pos.avg_price = PreReduce.avg_price

\* C9 amended: reduce_position(q, p) immediately followed by add_position(q, p)
\* restores the pre-reduce quantity Q and leaves avg_price at
\* ((Q - q) * A + q * p) / Q for the pre-reduce avg_price A, which is A exactly
\* when p = A.
C9_RoundTripReaverages ==
    RoundTrip
        => /\ Pos.quantity = PreReduce.quantity
           /\ Pos.avg_price =
                RDiv(RAdd(RMul(RSub(PreReduce.quantity, Reduced.quantity), PreReduce.avg_price),
                          RMul(Reduced.quantity, Reduced.price)),
                     PreReduce.quantity)
           /\ (Pos.avg_price = PreReduce.avg_price) <=> (Reduced.price = PreReduce.avg_price)

\* A partial reduction at a price other than the cost basis, then the addition.
C9_Witness ==
    /\ RoundTrip
    /\ RLt(Reduced.quantity, PreReduce.quantity)
    /\ Reduced.price # PreReduce.avg_price

\* C10: after close_position(price) returns, the Position has quantity = 0
\* and side = FLAT.
C10_CloseYieldsFlat ==
    (OnExisting("close_position") /\ last.err = "none")
        => Pos.quantity = Zero /\ Pos.side = "FLAT"

\* A reduce_position call that returned and left quantity 0.
ReducedToZero ==
    OnExisting("reduce_position") /\ last.err = "none" /\ Pos.quantity = Zero

\* C11 as stated: when reduce_position reduces quantity to exactly 0, side
\* becomes FLAT and avg_price is reset to 0.
C11_ReduceToZeroResetsAvg ==
    ReducedToZero => Pos.side = "FLAT" /\ Pos.avg_price = Zero

\* C11 amended: when reduce_position reduces quantity to exactly 0, side
\* becomes FLAT and avg_price keeps the value it had before the call.
C11_ReduceToZeroKeepsAvg ==
    ReducedToZero => Pos.side = "FLAT" /\ Pos.avg_price = Before.avg_price

\* A LONG or SHORT position reduced by all it holds.
C11_Witness ==
    /\ ReducedToZero
    /\ Before.side \in {"LONG", "SHORT"}
    /\ RLt(Zero, Before.avg_price)

\* C12: get_position for a symbol not yet in the registry succeeds and
\* registers a FLAT Position with quantity 0 and avg_price 0; for a symbol
\* already in the registry it returns the stored Position and leaves the
\* registry unchanged.
C12_GetPositionCreatesFlat ==
    last.op = "get_position"
        => /\ last.err = "none"
           /\ Symbol \in DOMAIN positions
           /\ last.ret = <<Pos>>
           /\ IF Symbol \in DOMAIN last.before
              THEN positions = last.before
              ELSE Pos.side = "FLAT" /\ Pos.quantity = Zero /\ Pos.avg_price = Zero

OnUpdate == OnExisting("update_position")

\* C13: update_position requesting the side opposite to the current non-flat
\* side with qty > 0 leaves the Position on the requested side with
\* quantity = qty and avg_price = price, the old exposure's PnL at price added
\* to realized_pnl.
C13_UpdateOppositeReverses ==
    (/\ OnUpdate
     /\ \/ is_long(Before) /\ last.side = "SHORT"
        \/ is_short(Before) /\ last.side = "LONG"
     /\ RLt(Zero, last.quantity) /\ RLt(Zero, last.price))
        => /\ last.err = "none"
           /\ Pos.side = last.side
           /\ Pos.quantity = last.quantity
           /\ Pos.avg_price = last.price
           /\ Pos.realized_pnl =
                RAdd(Before.realized_pnl, ClosedPnl(Before, Before.quantity, last.price))

SameSide ==
    /\ OnUpdate
    /\ last.side \in {"LONG", "SHORT"}
    /\ Before.side = last.side

\* C14: update_position requesting the current side with a smaller quantity
\* reduces the Position by the difference: quantity becomes the requested
\* one, avg_price is unchanged and realized_pnl grows by the difference's PnL.
C14_UpdateSmallerReduces ==
    (/\ SameSide
     /\ RLt(Zero, last.quantity) /\ RLt(last.quantity, Before.quantity)
     /\ RLt(Zero, last.price))
        => /\ last.err = "none"
           /\ Pos.quantity = last.quantity
           /\ Pos.avg_price = Before.avg_price
           /\ Pos.realized_pnl =
                RAdd(Before.realized_pnl,
                     ClosedPnl(Before, RSub(Before.quantity, last.quantity), last.price))

UpdateLarger == SameSide /\ RLt(Before.quantity, last.quantity)

\* C15: update_position requesting the current side with a larger quantity
\* adds the difference at the given price: quantity becomes the requested
\* one, avg_price the weighted average (old_quantity * old_avg_price +
\* delta * price) / requested quantity, and realized_pnl is unchanged.
C15_UpdateLargerAdds ==
    UpdateLarger
        => /\ last.err = "none"
           /\ Pos.side = last.side
           /\ Pos.quantity = last.quantity
           /\ Pos.avg_price =
                RDiv(RAdd(RMul(Before.quantity, Before.avg_price),
                          RMul(RSub(last.quantity, Before.quantity), last.price)),
                     last.quantity)
           /\ Pos.realized_pnl = Before.realized_pnl

\* A held position enlarged at a price other than its cost basis.
C15_Witness ==
    /\ UpdateLarger
    /\ RLt(Zero, Before.quantity)
    /\ last.price # Before.avg_price
    /\ last.err = "none"

OpenFromFlat ==
    /\ OnUpdate
    /\ Before.side = "FLAT" /\ Before.quantity = Zero
    /\ last.side \in {"LONG", "SHORT"}
    /\ RLt(Zero, last.quantity)

CloseByUpdate ==
    /\ OnUpdate
    /\ last.side = "FLAT"
    /\ is_long(Before) \/ is_short(Before)

\* C17: update_position with requested side FLAT on a LONG or SHORT Position
\* closes it: quantity = 0, side = FLAT, and realized_pnl grows by
\* old_quantity * (price - avg_price) * direction_sign.
C17_UpdateFlatCloses ==
    CloseByUpdate
        => /\ last.err = "none"
           /\ Pos.quantity = Zero
           /\ Pos.side = "FLAT"
           /\ Pos.realized_pnl =
                RAdd(Before.realized_pnl, ClosedPnl(Before, Before.quantity, last.price))

\* A SHORT position closed at a price other than its cost basis.
C17_Witness ==
    /\ CloseByUpdate
    /\ is_short(Before)
    /\ last.price # Before.avg_price
    /\ Pos.realized_pnl # Before.realized_pnl

\* C18: a Position, PositionManager or Trade call that ends in an error
\* leaves the registry, every field of the Position and the Trade as they
\* were before the call.
C18_FailedCallChangesNothing ==
    /\ (last.op \in {"add_position", "reduce_position", "reverse_position",
                     "update_position"} /\ last.err # "none")
         => positions = last.before
    /\ (OnTrade /\ tlast.err # "none") => trade = tlast.before

MarkedToMarket(p) ==
    RMul(RMul(RSub(p.current_price, p.avg_price), p.quantity), direction_sign(p.side))

\* C19: update_price(new_price) sets current_price to new_price and
\* unrealized_pnl to (new_price - avg_price) * quantity * direction_sign(side),
\* and leaves realized_pnl, quantity, avg_price and side unchanged.
C19_UpdatePriceMarks ==
    OnExisting("update_price")
        => /\ last.err = "none"
           /\ Pos.current_price = last.price
           /\ Pos.unrealized_pnl =
                RMul(RMul(RSub(last.price, Before.avg_price), Before.quantity),
                     direction_sign(Before.side))
           /\ Pos.realized_pnl = Before.realized_pnl
           /\ Pos.quantity = Before.quantity
           /\ Pos.avg_price = Before.avg_price
           /\ Pos.side = Before.side

\* A SHORT position marked at a new price that moves its unrealized PnL.
C19_Witness ==
    /\ OnExisting("update_price")
    /\ is_short(Before)
    /\ last.price # Before.current_price
    /\ Pos.unrealized_pnl # Before.unrealized_pnl

\* C20: in every reachable state the stored unrealized_pnl equals
\* (current_price - avg_price) * quantity * direction_sign(side).
C20_UnrealizedIsMarked ==
    \A s \in DOMAIN positions : positions[s].unrealized_pnl = MarkedToMarket(positions[s])

AlreadyFlat == OnExisting("close_position") /\ is_flat(Before)

\* C21: close_position(price) on a Position that is already flat returns 0
\* and changes no field of the Position; realized_pnl stays the same.
C21_CloseFlatIsNoOp ==
    AlreadyFlat
        => /\ last.err = "none"
           /\ last.ret = <<Zero>>
           /\ Pos = Before
           /\ Pos.realized_pnl = Before.realized_pnl

\* A position closed with a realized PnL and then closed again.
C21_Witness ==
    /\ AlreadyFlat
    /\ Before.side = "FLAT" /\ Before.quantity = Zero
    /\ Before.realized_pnl # Zero
    /\ last.err = "none"

ValidTradeArgs(a) == RLt(Zero, a[2]) /\ RLt(Zero, a[3]) /\ RLe(Zero, a[4])

\* C22: constructing a Trade with quantity <= 0, price <= 0 or commission < 0
\* fails with a validation error and yields no Trade object; every
\* constructed Trade has quantity > 0, price > 0 and commission >= 0.
C22_TradeConstructionValidates ==
    tlast.op = "new"
        => IF ValidTradeArgs(tlast.args)
           THEN /\ tlast.err = "none"
                /\ trade # None
                /\ trade[1].trade_type = tlast.args[1]
                /\ trade[1].quantity = tlast.args[2]
                /\ trade[1].price = tlast.args[3]
                /\ trade[1].commission = tlast.args[4]
                /\ trade[1].slippage = tlast.args[5]
                /\ RLt(Zero, trade[1].quantity)
                /\ RLt(Zero, trade[1].price)
                /\ RLe(Zero, trade[1].commission)
           ELSE /\ tlast.err \in {"ValueError: quantity <= 0", "ValueError: price <= 0",
                                  "ValueError: commission < 0"}
                /\ trade = None

\* A construction refused for its negative commission alone.
C22_Witness ==
    /\ tlast.op = "new"
    /\ RLt(Zero, tlast.args[2]) /\ RLt(Zero, tlast.args[3]) /\ RLt(tlast.args[4], Zero)
    /\ tlast.err = "ValueError: commission < 0"
    /\ trade = None

FillPending == tlast.op = "fill" /\ tlast.before[1].status = "PENDING"

\* C23: fill() on a PENDING Trade sets status to FILLED; a supplied fill
\* price becomes the trade's price, without one the price is unchanged;
\* quantity, commission and trade_type are unchanged.
C23_FillSetsFilled ==
    FillPending
        => /\ tlast.err = "none"
           /\ trade[1].status = "FILLED"
           /\ trade[1].price = IF tlast.fill_price # None THEN tlast.fill_price[1]
                                ELSE tlast.before[1].price
           /\ trade[1].quantity = tlast.before[1].quantity
           /\ trade[1].commission = tlast.before[1].commission
           /\ trade[1].trade_type = tlast.before[1].trade_type

\* A pending trade filled at a price other than its recorded one.
C23_Witness ==
    /\ FillPending
    /\ tlast.fill_price # None
    /\ tlast.fill_price[1] # tlast.before[1].price
    /\ trade[1].status = "FILLED"

\* C24: for every Trade in every reachable state, total_cost >= trade_value,
\* where trade_value = quantity * price and
\* total_cost = trade_value + commission + quantity * |slippage|.
C24_TotalCostCoversValue ==
    trade # None
        => /\ trade_value(trade[1]) = RMul(trade[1].quantity, trade[1].price)
           /\ total_cost(trade[1]) =
                RAdd(trade_value(trade[1]),
                     RAdd(trade[1].commission,
                          RMul(trade[1].quantity,
                               IF RLt(trade[1].slippage, Zero) THEN RNeg(trade[1].slippage)
                               ELSE trade[1].slippage)))
           /\ RLe(trade_value(trade[1]), total_cost(trade[1]))

\* A filled trade with a negative slippage and no commission.
C24_Witness ==
    /\ trade # None
    /\ trade[1].status = "FILLED"
    /\ RLt(trade[1].slippage, Zero)
    /\ trade[1].commission = Zero
    /\ RLt(trade_value(trade[1]), total_cost(trade[1]))

Summary == get_trade_summary(Ledger, objects)
Stored(i) == objects[trade_history[i]]
StoredWith(status) == {i \in 1 .. Len(trade_history) : Stored(i).status = status}
IsStored(i, trade_type, status) ==
    Stored(i).trade_type = trade_type /\ Stored(i).status = status

\* The log of the documented example: BUY filled, SELL filled, BUY pending.
ExampleLedger ==
    /\ Len(trade_history) = 3
    /\ IsStored(1, "BUY", "FILLED")
    /\ IsStored(2, "SELL", "FILLED")
    /\ IsStored(3, "BUY", "PENDING")

\* C25: after any sequence of add_trade calls and status changes of the added
\* trades, get_trade_summary reports total_trades = number of trades added,
\* filled_trades = number of them that are FILLED and pending_trades = number
\* that are PENDING; [BUY filled, SELL filled, BUY pending] gives 3, 2, 1.
C25_SummaryCounts ==
    /\ Summary.total_trades = llast.added
    /\ Summary.filled_trades = Cardinality(StoredWith("FILLED"))
    /\ Summary.pending_trades = Cardinality(StoredWith("PENDING"))
    /\ ExampleLedger
         => /\ Summary.total_trades = 3
            /\ Summary.filled_trades = 2
            /\ Summary.pending_trades = 1

\* The ledger of the documented example.
C25_Witness ==
    /\ ExampleLedger
    /\ llast.added = 3
    /\ Summary.total_trades = 3 /\ Summary.filled_trades = 2 /\ Summary.pending_trades = 1

RECURSIVE FilledCommission(_)
FilledCommission(i) ==
    IF i > Len(trade_history) THEN Zero
    ELSE RAdd(IF Stored(i).status = "FILLED" THEN Stored(i).commission ELSE Zero,
              FilledCommission(i + 1))

RECURSIVE FilledPnl(_)
FilledPnl(i) ==
    IF i > Len(trade_history) THEN Zero
    ELSE RAdd(IF Stored(i).status = "FILLED" THEN Stored(i).realized_pnl ELSE Zero,
              FilledPnl(i + 1))

\* C26: get_total_commission and get_total_realized_pnl sum commission and
\* realized_pnl over exactly the trades whose status is FILLED; PENDING,
\* CANCELLED and REJECTED trades contribute nothing.
C26_TotalsOverFilled ==
    /\ get_total_commission(Ledger, objects) = FilledCommission(1)
    /\ get_total_realized_pnl(Ledger, objects) = FilledPnl(1)
    /\ Summary.total_commission = FilledCommission(1)
    /\ Summary.total_realized_pnl = FilledPnl(1)
    /\ StoredWith("FILLED") = {}
         => /\ get_total_commission(Ledger, objects) = Zero
            /\ get_total_realized_pnl(Ledger, objects) = Zero

\* A log with a filled closing trade next to a cancelled and a rejected trade
\* that carry a commission or a realized PnL.
C26_Witness ==
    /\ Cardinality(StoredWith("FILLED")) = 1
    /\ \E i \in StoredWith("FILLED") : Stored(i).trade_type = "CLOSE_LONG"
    /\ \E i \in StoredWith("CANCELLED") : Stored(i).commission # Zero
    /\ \E i \in StoredWith("REJECTED") : Stored(i).realized_pnl # Zero
    /\ get_total_commission(Ledger, objects) = I(1)
    /\ get_total_realized_pnl(Ledger, objects) = I(2)

ZeroSummary ==
    [total_trades |-> 0, filled_trades |-> 0, pending_trades |-> 0,
     total_commission |-> Zero, total_realized_pnl |-> Zero,
     buy_trades |-> 0, sell_trades |-> 0, close_long_trades |-> 0,
     close_short_trades |-> 0]

\* A TradeManager step that is not clear_trades keeps every stored trade at
\* its place in the log and at most appends one trade by add_trade.
KeepsLog ==
    /\ Len(trade_history') >= Len(trade_history)
    /\ SubSeq(trade_history', 1, Len(trade_history)) = trade_history
    /\ \A i \in 1 .. Len(trade_history) :
         objects'[trade_history[i]].trade_id = objects[trade_history[i]].trade_id
    /\ trade_history' # trade_history
         => /\ llast'.op = "add_trade"
            /\ Len(trade_history') = Len(trade_history) + 1

\* C27: the ledger is append-only: between two clear_trades calls no operation
\* removes or reorders a stored trade and the log only grows by add_trade
\* appending at the end; clear_trades empties the log and the id map, so that
\* every count and aggregate of the summary is 0.
C27_AppendOnlyUntilClear ==
    [][IF llast'.op = "clear_trades"
       THEN /\ trade_history' = <<>>
            /\ trades' = NoTrades
            /\ Summary' = ZeroSummary
       ELSE KeepsLog]_vars

\* clear_trades called on a full log.
C27_Witness ==
    /\ llast.op = "clear_trades"
    /\ llast.count = MaxLedger
    /\ trade_history = <<>> /\ DOMAIN trades = {}

RejectPending == tlast.op = "reject" /\ tlast.before[1].status = "PENDING"

\* C28 as stated: reject(reason) on a PENDING Trade sets status to REJECTED
\* and stores the given reason in the metadata, for every reason value
\* including the empty string.
C28_RejectStoresReason ==
    RejectPending
        => /\ trade[1].status = "REJECTED"
           /\ "reject_reason" \in DOMAIN trade[1].metadata
           /\ trade[1].metadata["reject_reason"] = tlast.reason

\* C28 amended: reject(reason) on a PENDING Trade sets status to REJECTED; a
\* non-empty reason is stored in the metadata under reject_reason, and with
\* the empty string the metadata is left as it was.
C28_RejectStoresNonEmptyReason ==
    RejectPending
        => /\ tlast.err = "none"
           /\ trade[1].status = "REJECTED"
           /\ IF tlast.reason # ""
              THEN /\ "reject_reason" \in DOMAIN trade[1].metadata
                   /\ trade[1].metadata["reject_reason"] = tlast.reason
              ELSE trade[1].metadata = tlast.before[1].metadata

\* A pending trade rejected with the empty reason.
C28_Witness ==
    /\ RejectPending
    /\ tlast.reason = ""
    /\ trade[1].status = "REJECTED"
    /\ "reject_reason" \notin DOMAIN trade[1].metadata

Given(x) == x # None
InvalidSignalArgs(a) ==
    \/ a[2] = Zero
    \/ a[3] = "limit" /\ ~Given(a[4])
    \/ Given(a[5]) /\ RLe(a[5][1], Zero)
    \/ Given(a[6]) /\ RLe(a[6][1], Zero)

\* C29: constructing a Signal fails with a validation error, yielding no
\* object, whenever quantity = 0, or price_type is limit with no limit_price,
\* or stop_price is given and <= 0, or take_profit is given and <= 0;
\* otherwise the construction succeeds.
C29_SignalConstructionValidates ==
    slast.op = "new"
        => IF InvalidSignalArgs(slast.args)
           THEN slast.err # "none" /\ signal = None
           ELSE /\ slast.err = "none"
                /\ signal # None
                /\ signal[1].signal_type = slast.args[1]
                /\ signal[1].quantity = slast.args[2]
                /\ signal[1].price_type = slast.args[3]
                /\ signal[1].limit_price = slast.args[4]
                /\ signal[1].stop_price = slast.args[5]
                /\ signal[1].take_profit = slast.args[6]

\* A limit order refused for its missing limit price alone.
C29_Witness ==
    /\ slast.op = "new"
    /\ slast.args[2] # Zero
    /\ slast.args[3] = "limit" /\ slast.args[4] = None
    /\ slast.args[5] = None /\ slast.args[6] = None
    /\ slast.err = "ValueError: limit order without limit_price"
    /\ signal = None

Sign(x) == IF RLt(Zero, x) THEN 1 ELSE IF RLt(x, Zero) THEN -1 ELSE 0

\* C30: Signal.direction is +1 or -1 for BUY and SELL signals according to
\* the sign of quantity (the sign for BUY, its opposite for SELL), and 0 for
\* CLOSE, CLOSE_LONG and CLOSE_SHORT signals regardless of quantity.
C30_DirectionBySign ==
    signal # None
        => /\ signal[1].signal_type = "BUY"
                => direction(signal[1]) = Sign(signal[1].quantity)
           /\ signal[1].signal_type = "SELL"
                => direction(signal[1]) = -Sign(signal[1].quantity)
           /\ signal[1].signal_type \in {"BUY", "SELL"}
                => direction(signal[1]) \in {1, -1}
           /\ signal[1].signal_type \in {"CLOSE", "CLOSE_LONG", "CLOSE_SHORT"}
                => direction(signal[1]) = 0

\* A SELL signal with a negative quantity, whose direction is +1.
C30_Witness ==
    /\ signal # None
    /\ signal[1].signal_type = "SELL"
    /\ RLt(signal[1].quantity, Zero)
    /\ direction(signal[1]) = 1

\* C31: in every state reachable by Position and PositionManager operations, a
\* Position whose side is LONG or SHORT has avg_price > 0.
C31_HeldAvgPricePositive ==
    \A s \in DOMAIN positions :
        positions[s].side \in {"LONG", "SHORT"} => RLt(Zero, positions[s].avg_price)

\* C32: a Trade keeps quantity > 0 and price > 0 in every state of its
\* lifecycle, whatever the arguments of fill, cancel and reject.
C32_TradeStaysPositive ==
    trade # None => RLt(Zero, trade[1].quantity) /\ RLt(Zero, trade[1].price)

\* C35: update_position returns to its caller the realized PnL of the
\* dispatched Position operation: the PnL realized by the call, 0 for an
\* opening or an addition.
C35_UpdateReturnsRealized ==
    (OnUpdate /\ last.err = "none")
        => last.ret = <<RSub(Pos.realized_pnl, Before.realized_pnl)>>

\* C36: in every state reachable by add_trade and clear_trades, the id map and
\* the log hold the same trades: the map has as many entries as the log has
\* elements, and get_trade(t.trade_id) returns t for every trade t of the log.
C36_MapMatchesLog ==
    /\ Cardinality(DOMAIN trades) = Len(trade_history)
    /\ \A i \in 1 .. Len(trade_history) :
         get_trade(Ledger, Stored(i).trade_id) = <<trade_history[i]>>

\* C37: in every reachable TradeManager state, also after stored trades were
\* filled, cancelled or rejected, the summary has filled_trades +
\* pending_trades <= total_trades and buy_trades + sell_trades +
\* close_long_trades + close_short_trades = total_trades.
C37_SummaryPartitions ==
    /\ Summary.filled_trades + Summary.pending_trades <= Summary.total_trades
    /\ Summary.buy_trades + Summary.sell_trades + Summary.close_long_trades
         + Summary.close_short_trades = Summary.total_trades

\* A log with a filled, a cancelled and a pending trade, a closing trade among them.
C37_Witness ==
    /\ Len(trade_history) = MaxLedger
    /\ StoredWith("FILLED") # {} /\ StoredWith("CANCELLED") # {} /\ StoredWith("PENDING") # {}
    /\ \E i \in 1 .. Len(trade_history) : Stored(i).trade_type = "CLOSE_SHORT"
    /\ Summary.filled_trades + Summary.pending_trades < Summary.total_trades

ZeroQuantityError == slast.err = "ValueError: quantity == 0" /\ signal = None

DeathCrossWhileLong ==
    /\ slast.op = "on_bar"
    /\ Given(slast.args[1]) /\ Given(slast.args[2])
    /\ RLt(slast.args[1][1], slast.args[2][1])
    /\ Symbol \in DOMAIN slast.args[3]
    /\ is_long(slast.args[3][Symbol])

PnlOfOpening ==
    /\ plast.op = "calculate_pnl"
    /\ plast.before[1].trade_type \in {"BUY", "SELL"}
    /\ RLt(Zero, plast.before[1].price)

\* The Position a BUY (resp. SELL) trade opens: LONG (resp. SHORT) with the
\* trade's quantity at the trade's price.
OpenedBy(t) ==
    IF t.trade_type = "BUY" THEN create_long_position(t.quantity, t.price, 0)
    ELSE create_short_position(t.quantity, t.price, 0)

\* C33: for a BUY (resp. SELL) trade of quantity q at price p and any exit
\* price x, calculate_pnl(x) equals the value returned by
\* reduce_position(q, x) on a LONG (resp. SHORT) Position of quantity q and
\* avg_price p.
C33_TradePnlMatchesPosition ==
    PnlOfOpening
        => LET t == plast.before[1]
               reduced == reduce_position(OpenedBy(t).pos, t.quantity, plast.exit_price, 0)
           IN  /\ OpenedBy(t).err = "none"
               /\ reduced.err = "none"
               /\ plast.ret = reduced.ret

\* A SELL trade filled at another price and closed at a loss.
C33_Witness ==
    /\ PnlOfOpening
    /\ plast.before[1].trade_type = "SELL"
    /\ plast.before[1].status = "FILLED"
    /\ RLt(plast.ret[1], Zero)

OnUpdatePrices == last.op = "update_prices"

\* C34: update_prices(prices) marks to market exactly the registered positions
\* whose symbol is a key of prices: positions of other symbols are unchanged,
\* no position is created for an unregistered symbol, and no position's
\* realized_pnl, quantity, avg_price or side changes.
C34_UpdatePricesMarksKeys ==
    OnUpdatePrices
        => /\ last.err = "none"
           /\ DOMAIN positions = DOMAIN last.before
           /\ \A s \in DOMAIN positions :
                LET old == last.before[s]
                    new == positions[s]
                IN  /\ new.realized_pnl = old.realized_pnl
                    /\ new.quantity = old.quantity
                    /\ new.avg_price = old.avg_price
                    /\ new.side = old.side
                    /\ IF s \in DOMAIN last.price
                       THEN /\ new.current_price = last.price[s]
                            /\ new.unrealized_pnl =
                                 RMul(RMul(RSub(last.price[s], old.avg_price), old.quantity),
                                      direction_sign(old.side))
                       ELSE new = old

\* Two registered positions and a map that names one of them and moves its
\* unrealized PnL.
C34_Witness ==
    /\ OnUpdatePrices
    /\ DOMAIN last.before = MarkSymbols
    /\ \E s \in MarkSymbols :
         /\ DOMAIN last.price = {s}
         /\ positions[s].unrealized_pnl # last.before[s].unrealized_pnl
         /\ \A o \in MarkSymbols \ {s} : positions[o] = last.before[o]

\* The keys in memory when the latest call evicted: those held before the
\* call and the key the call stored.
InMemoryAtEviction == DOMAIN clast.before[1].memory_cache \cup {clast.key}

\* C39: for a DataCache with max_memory_items >= 0, after any sequence of set,
\* get, remove and clear calls the memory cache holds at most
\* max_memory_items entries, and an evicted entry is the key least recently
\* set or read among those in memory.
C39_BoundedLeastRecentlyUsed ==
    cache # None
        => /\ clast.err = "none"
           /\ Cardinality(DOMAIN cache[1].memory_cache) <= cache[1].max_memory_items
           /\ \A i \in 1 .. Len(clast.evicted) :
                /\ clast.evicted[i] \in InMemoryAtEviction
                /\ clast.evicted[i] \notin DOMAIN cache[1].memory_cache
                /\ \A k \in InMemoryAtEviction : used[clast.evicted[i]] <= used[k]

\* A full cache of two keys whose older key was read again, so that storing a
\* third key evicts the other one.
C39_Witness ==
    /\ cache # None
    /\ clast.op = "set"
    /\ Len(clast.evicted) = 1
    /\ Cardinality(DOMAIN clast.before[1].memory_cache) = 2
    /\ clast.before[1].access_order[1] = clast.evicted[1]
    /\ \E k \in DOMAIN cache[1].memory_cache :
         k # clast.key /\ used[k] = steps - 1

====
